---- MODULE Spec2Model ----
(***************************************************************************)
(* State-machine model of lib/wallet.js: the single-address account wallet *)
(* (construction, transfers, import transfers, send/record, persistence).  *)
(*                                                                         *)
(* Decimal amounts (Big / BN values) are integers.  A transaction's        *)
(* `value` is kept as the string the code builds, [neg, mag]: `neg` counts *)
(* the leading '-' characters, because transformTx negates by string       *)
(* concatenation.  Private keys are small integers, their hex strings are  *)
(* [pfx, hex] (pfx: the string starts with "0x").                          *)
(*                                                                         *)
(* The caller: it uses the wallet once `done` has reported it (pc =        *)
(* "ready"); each transfer or import it starts takes the next slot of      *)
(* `sends`, and any number of them may be in flight at once; it restores a *)
(* wallet from JSON only while no request of the wallet is outstanding.    *)
(* Remote replies are inputs: every request may resolve or reject, in any  *)
(* order.  A fetched transaction is the indexer's record of the broadcast  *)
(* one (sender = the signer's address).  Callbacks return normally.        *)
(***************************************************************************)
EXTENDS Integers, Sequences, FiniteSets, TLC

(* ---- bounds of the model ---- *)
MaxSends == 2        \* transfers the caller builds (createTx / createImportTx calls)
MaxKey == 3          \* private keys 1..MaxKey are valid scalars

(* ---- program constants ---- *)
DefaultGasLimit == 21000
DefaultMinConf == 5
ChainId == 1

Undefined == "undefined"          \* JavaScript's undefined, for string-valued fields
NoNum == 0 - 1                    \* an absent numeric option (undefined)

Keys == 1..MaxKey
Seeds == {"seedA", "seedB"}
EmptySeed == ""
ForeignKey == MaxKey              \* the externally held key that gets imported
OtherAddress == "0xb0"            \* an address no modelled key controls

(* ethereumjs: the address string of a private key (injective) *)
getAddressString(key) == "0xa" \o ToString(key)

(* hdkey.fromMasterSeed(seed).getWallet(): the key derived from a seed *)
fromMasterSeed(seed) == IF seed = "seedA" THEN 1 ELSE 2

(* etherWallet.getPrivateKeyString(): "0x" + hex *)
getPrivateKeyString(key) == [pfx |-> TRUE, hex |-> key]

(* ethUtil.isValidPrivate *)
isValidPrivate(k) == k \in Keys

(* ---- remote API replies the model draws from ---- *)
BalanceReplies == {[balance |-> 90000, confirmedBalance |-> 80000]}
TxsCountReplies == {2}
GasPriceReplies == {2}

(* the options objects the caller constructs a wallet with; minConf 0 stands *)
(* for an absent (falsy) options.minConf                                     *)
ConstructOptions ==
    { [seed |-> "seedA", networkName |-> Undefined, minConf |-> 0],
      [seed |-> "seedB", networkName |-> "ethereum", minConf |-> 2],
      [seed |-> EmptySeed, networkName |-> "ethereum", minConf |-> 0] }

RawTx(from, to, mag, gas, gasPrice, gasUsed, confirmations) ==
    [from |-> from, to |-> to, value |-> [neg |-> 0, mag |-> mag], gas |-> gas,
     gasPrice |-> gasPrice, gasUsed |-> gasUsed, confirmations |-> confirmations]

(* api.addresses.txs(address): the raw history the indexer may return *)
HistoryReplies(address) ==
    { << >>,
      << RawTx(address, OtherAddress, 30, DefaultGasLimit, 1, 0, 1),
         RawTx(address, OtherAddress, 50, DefaultGasLimit, 2, DefaultGasLimit, DefaultMinConf),
         RawTx(OtherAddress, address, 70, DefaultGasLimit, 1, DefaultGasLimit, 0) >> }

(* the rejection reason of each of the constructor's four lookups *)
LookupError(i) ==
    CASE i = 1 -> "balance lookup failed"
      [] i = 2 -> "txsCount lookup failed"
      [] i = 3 -> "gasPrice lookup failed"
      [] OTHER -> "txs lookup failed"

NoError == ""                     \* the callbacks' null error argument

VARIABLES
    pc,           \* "new", "pending" (Promise.all outstanding), "ready", "failed"
    origin,       \* "none", "seed" (new Wallet(options)), "json" (Wallet.deserialize)
    w,            \* the Wallet object's fields
    lookup,       \* the constructor's four requests: "idle", "pending", "ok", "err"
    results,      \* the values the fulfilled requests delivered
    all,          \* the constructor's Promise.all: [state, reason]
    failures,     \* the constructor's rejected requests, in the order they rejected
    doneCalls,    \* the calls of options.done so far: <<[err, wallet]>>
    txDoneCalls,  \* the calls of options.txDone so far
    sends         \* one slot per transfer or import the caller starts

vars == <<pc, origin, w, lookup, results, all, failures, doneCalls, txDoneCalls,
          sends>>

Slots == 1..MaxSends

(* ---- blank values ---- *)
NoWallet ==
    [networkName |-> Undefined, balance |-> 0, confirmedBalance |-> 0,
     historyTxs |-> << >>, txsCount |-> 0, etherWallet |-> 0,
     addressString |-> Undefined, gasPrice |-> 0, gasLimit |-> 0, minConf |-> 0]

NoTx ==
    [nonce |-> 0, gasPrice |-> 0, gasLimit |-> 0, to |-> Undefined, value |-> 0,
     chainId |-> 0, signedBy |-> 0]

NoRaw == RawTx(Undefined, Undefined, 0, 0, 0, 0, 0)

NoCall == [n |-> 0, err |-> NoError, tx |-> << >>]

NoOptions == [privateKey |-> 0, amount |-> NoNum, txsCount |-> NoNum, fee |-> NoNum,
              to |-> Undefined]

(* thrown: what the slot's call threw, or the reason its promise rejected with.   *)
(* phase: "free", "importing" (getImportTxOptions outstanding), "options" (it      *)
(* resolved), "rejected" (it rejected), "built" (a signed tx in the caller's hand), *)
(* "threw", "propagating", "fetching", "done"                                       *)
(* seen: how many fetch callbacks had recorded a transaction of this wallet when  *)
(* createTx built the slot's transfer                                             *)
FreeSlot == [phase |-> "free", bal |-> "idle", cnt |-> "idle", options |-> NoOptions,
             tx |-> NoTx, thrown |-> NoError, raw |-> NoRaw, cb |-> NoCall,
             seen |-> 0]

NoResults == [balance |-> 0, confirmedBalance |-> 0, txsCount |-> 0, gasPrice |-> 0,
              txs |-> << >>]

Init ==
    /\ pc = "new"
    /\ origin = "none"
    /\ w = NoWallet
    /\ lookup = [i \in 1..4 |-> "idle"]
    /\ results = NoResults
    /\ all = [state |-> "none", reason |-> NoError]
    /\ failures = << >>
    /\ doneCalls = << >>
    /\ txDoneCalls = << >>
    /\ sends = [s \in Slots |-> FreeSlot]

(* ---- history normalization (transformTxs / transformTx) ---- *)
(* a normalization that reports a zero fee when gasUsed is unknown *)
transformTxZeroFee(address, tx) ==
    LET fee == IF tx.gasUsed # 0 THEN tx.gasUsed * tx.gasPrice ELSE 0
        value == IF tx.from = address
                 THEN [neg |-> tx.value.neg + 1, mag |-> tx.value.mag]
                 ELSE tx.value
    IN  [from |-> tx.from, to |-> tx.to, value |-> value, gas |-> tx.gas,
         gasPrice |-> tx.gasPrice, gasUsed |-> tx.gasUsed,
         confirmations |-> tx.confirmations, fee |-> fee]

transformTx(address, tx) ==
    LET fee == IF tx.gasUsed # 0 THEN tx.gasUsed * tx.gasPrice ELSE -1
        value == IF tx.from = address
                 THEN [neg |-> tx.value.neg + 1, mag |-> tx.value.mag]
                 ELSE tx.value
    IN  [from |-> tx.from, to |-> tx.to, value |-> value, gas |-> tx.gas,
         gasPrice |-> tx.gasPrice, gasUsed |-> tx.gasUsed,
         confirmations |-> tx.confirmations, fee |-> fee]

transformTxs(address, txs) == [i \in 1..Len(txs) |-> transformTx(address, txs[i])]

(* Big(str): the number a decimal string denotes; more than one '-' is no number *)
BigValid(v) == v.neg <= 1
Big(v) == IF v.neg = 1 THEN 0 - v.mag ELSE v.mag
Abs(n) == IF n < 0 THEN 0 - n ELSE n

(* ---- new Wallet(options) ---- *)
doneError(err) ==
    /\ doneCalls' = Append(doneCalls, [err |-> err, wallet |-> FALSE])
    /\ txDoneCalls' = Append(txDoneCalls, [err |-> err, wallet |-> FALSE])

(* a constructor without the seed assertion *)
ConstructNoAssert(options) ==
    /\ pc = "new"
    /\ origin' = "seed"
    /\ w' = [networkName |-> options.networkName,
             balance |-> 0, confirmedBalance |-> 0, historyTxs |-> << >>,
             txsCount |-> 0,
             etherWallet |-> fromMasterSeed(options.seed),
             addressString |-> getAddressString(fromMasterSeed(options.seed)),
             gasPrice |-> 0, gasLimit |-> DefaultGasLimit,
             minConf |-> IF options.minConf # 0 THEN options.minConf
                         ELSE DefaultMinConf]
    /\ lookup' = [i \in 1..4 |-> "pending"]
    /\ all' = [state |-> "pending", reason |-> NoError]
    /\ pc' = "pending"
    /\ UNCHANGED <<results, failures, doneCalls, txDoneCalls, sends>>

Construct(options) ==
    /\ pc = "new"
    /\ origin' = "seed"
    /\ IF options.seed = EmptySeed
       THEN /\ doneError("seed cannot be empty")
            /\ pc' = "failed"
            /\ UNCHANGED <<w, lookup, results, all, failures, sends>>
       ELSE /\ w' = [networkName |-> options.networkName,
                     balance |-> 0, confirmedBalance |-> 0, historyTxs |-> << >>,
                     txsCount |-> 0,
                     etherWallet |-> fromMasterSeed(options.seed),
                     addressString |-> getAddressString(fromMasterSeed(options.seed)),
                     gasPrice |-> 0, gasLimit |-> DefaultGasLimit,
                     minConf |-> IF options.minConf # 0 THEN options.minConf
                                 ELSE DefaultMinConf]
            /\ lookup' = [i \in 1..4 |-> "pending"]
            /\ all' = [state |-> "pending", reason |-> NoError]
            /\ pc' = "pending"
            /\ UNCHANGED <<results, failures, doneCalls, txDoneCalls, sends>>

(* Promise.all: fulfilled when every request is, rejected by the first rejection *)
AllAfterFulfil(i) ==
    IF all.state = "pending" /\ \A j \in 1..4 : j = i \/ lookup[j] = "ok"
    THEN [state |-> "fulfilled", reason |-> NoError]
    ELSE all

(* a join that reports the latest rejection instead of the first *)
AllAfterRejectLast(i) ==
    IF all.state \in {"pending", "rejected"}
    THEN [state |-> "rejected", reason |-> LookupError(i)]
    ELSE all

AllAfterReject(i) ==
    IF all.state = "pending"
    THEN [state |-> "rejected", reason |-> LookupError(i)]
    ELSE all

LookupFulfil(i) ==
    /\ lookup[i] = "pending"
    /\ lookup' = [lookup EXCEPT ![i] = "ok"]
    /\ \/ /\ i = 1
          /\ \E r \in BalanceReplies :
                results' = [results EXCEPT !.balance = r.balance,
                                           !.confirmedBalance = r.confirmedBalance]
       \/ /\ i = 2
          /\ \E r \in TxsCountReplies : results' = [results EXCEPT !.txsCount = r]
       \/ /\ i = 3
          /\ \E r \in GasPriceReplies : results' = [results EXCEPT !.gasPrice = r]
       \/ /\ i = 4
          /\ \E r \in HistoryReplies(w.addressString) :
                results' = [results EXCEPT !.txs = r]
    /\ all' = AllAfterFulfil(i)
    /\ UNCHANGED <<pc, origin, w, failures, doneCalls, txDoneCalls, sends>>

LookupReject(i) ==
    /\ lookup[i] = "pending"
    /\ lookup' = [lookup EXCEPT ![i] = "err"]
    /\ failures' = Append(failures, i)
    /\ all' = AllAfterReject(i)
    /\ UNCHANGED <<pc, origin, w, results, doneCalls, txDoneCalls, sends>>

(* .then(function (results) {...}) of the constructor *)
ConstructThen ==
    /\ pc = "pending"
    /\ all.state = "fulfilled"
    /\ w' = [w EXCEPT !.balance = results.balance,
                      !.confirmedBalance = results.confirmedBalance,
                      !.txsCount = results.txsCount,
                      !.gasPrice = results.gasPrice,
                      !.historyTxs = transformTxs(w.addressString, results.txs)]
    /\ doneCalls' = Append(doneCalls, [err |-> NoError, wallet |-> TRUE])
    /\ txDoneCalls' = Append(txDoneCalls, [err |-> NoError, wallet |-> TRUE])
    /\ pc' = "ready"
    /\ UNCHANGED <<origin, lookup, results, all, failures, sends>>

(* .catch(doneError) of the constructor *)
ConstructCatch ==
    /\ pc = "pending"
    /\ all.state = "rejected"
    /\ doneError(all.reason)
    /\ pc' = "failed"
    /\ UNCHANGED <<origin, w, lookup, results, all, failures, sends>>

(* ---- the caller's inputs to transfers and imports ---- *)
TransferTargets == {OtherAddress}
TransferValues == {0, 1000}
ImportBalanceReplies == {50000}       \* confirmedBalance of the foreign address
ImportTxsCountReplies == {4}          \* tx count of the foreign address
(* how the caller completes the prepared options: left as returned, the default *)
(* fee to this wallet, the whole amount as fee with no recipient, too high a fee *)
ImportCompletions(wallet) ==
    { [fee |-> NoNum, to |-> Undefined],
      [fee |-> 42000, to |-> wallet.addressString],
      [fee |-> 50000, to |-> Undefined],
      [fee |-> 60000, to |-> wallet.addressString] }
PropagateErrors == {"propagate failed"}
GetErrors == {"get failed"}
(* api.transactions.get: [gasUsed, confirmations] of a pending and of a mined tx *)
GetReplies ==
    { [gasUsed |-> 0, confirmations |-> 0],
      [gasUsed |-> DefaultGasLimit, confirmations |-> 2] }

(* the lowest free slot: slots are used in order *)
NextFree(s) ==
    /\ sends[s].phase = "free"
    /\ \A t \in Slots : t < s => sends[t].phase # "free"

(* ---- validator.transaction({wallet, to, value}): the validation gate ---- *)
validatorTransaction(wallet, to, value) ==
    IF to \notin {OtherAddress} \cup {getAddressString(k) : k \in Keys}
    THEN "Invalid address"
    ELSE IF value <= 0 THEN "Invalid value"
    ELSE IF value + wallet.gasLimit * wallet.gasPrice > wallet.balance
    THEN "Insufficient balance"
    ELSE NoError

(* ---- Wallet.prototype.createTx ---- *)
(* the fetch callbacks that have recorded a transaction sent by this wallet *)
recordedOwn ==
    Cardinality({u \in Slots : /\ sends[u].phase = "done"
                               /\ sends[u].cb.err = NoError
                               /\ sends[u].raw.from = w.addressString})

(* a transfer numbered with the count after it, not the current count *)
createTxFieldsNextNonce(wallet, to, value) ==
    [nonce |-> wallet.txsCount + 1, gasPrice |-> wallet.gasPrice,
     gasLimit |-> wallet.gasLimit, to |-> to, value |-> value, chainId |-> ChainId,
     signedBy |-> wallet.etherWallet]

createTxFields(wallet, to, value) ==
    [nonce |-> wallet.txsCount, gasPrice |-> wallet.gasPrice,
     gasLimit |-> wallet.gasLimit, to |-> to, value |-> value, chainId |-> ChainId,
     signedBy |-> wallet.etherWallet]

(* a createTx that also takes the nonce it used *)
CreateTxReserving(s, to, value) ==
    /\ pc = "ready"
    /\ NextFree(s)
    /\ LET err == validatorTransaction(w, to, value) IN
       IF err # NoError
       THEN /\ sends' = [sends EXCEPT ![s].phase = "threw", ![s].thrown = err]
            /\ w' = w
       ELSE /\ sends' = [sends EXCEPT ![s].phase = "built",
                                      ![s].tx = createTxFields(w, to, value),
                                      ![s].seen = recordedOwn]
            /\ w' = [w EXCEPT !.txsCount = @ + 1]
    /\ UNCHANGED <<pc, origin, lookup, results, all, failures, doneCalls, txDoneCalls>>

CreateTx(s, to, value) ==
    /\ pc = "ready"
    /\ NextFree(s)
    /\ LET err == validatorTransaction(w, to, value) IN
       IF err # NoError
       THEN sends' = [sends EXCEPT ![s].phase = "threw", ![s].thrown = err]
       ELSE sends' = [sends EXCEPT ![s].phase = "built",
                                   ![s].tx = createTxFields(w, to, value),
                                   ![s].seen = recordedOwn]
    /\ UNCHANGED <<pc, origin, w, lookup, results, all, failures, doneCalls, txDoneCalls>>

(* ---- Wallet.prototype.getPendingSpends / getDefaultFee ---- *)
(* a sum that also counts the entries with exactly minConf confirmations *)
RECURSIVE pendingSumInclusive(_, _, _)
pendingSumInclusive(txs, minConf, address) ==
    IF txs = << >> THEN 0
    ELSE LET tx == Head(txs)
             rest == pendingSumInclusive(Tail(txs), minConf, address)
         IN  IF tx.confirmations <= minConf /\ tx.from = address
             THEN Abs(Big(tx.value)) + tx.gas * tx.gasPrice + rest
             ELSE rest

(* a sum of the signed values, without the absolute value *)
RECURSIVE pendingSumSigned(_, _, _)
pendingSumSigned(txs, minConf, address) ==
    IF txs = << >> THEN 0
    ELSE LET tx == Head(txs)
             rest == pendingSumSigned(Tail(txs), minConf, address)
         IN  IF tx.confirmations < minConf /\ tx.from = address
             THEN Big(tx.value) + tx.gas * tx.gasPrice + rest
             ELSE rest

RECURSIVE pendingSum(_, _, _)
pendingSum(txs, minConf, address) ==
    IF txs = << >> THEN 0
    ELSE LET tx == Head(txs)
             rest == pendingSum(Tail(txs), minConf, address)
         IN  IF tx.confirmations < minConf /\ tx.from = address
             THEN Abs(Big(tx.value)) + tx.gas * tx.gasPrice + rest
             ELSE rest

getPendingSpends(wallet) ==
    pendingSum(wallet.historyTxs, wallet.minConf, wallet.addressString)

getDefaultFee(wallet) == wallet.gasLimit * wallet.gasPrice

(* a send that counts the nonce up when the broadcast is issued *)
SendTxOptimistic(s) ==
    /\ sends[s].phase = "built"
    /\ sends' = [sends EXCEPT ![s].phase = "propagating"]
    /\ w' = [w EXCEPT !.txsCount = @ + 1]
    /\ UNCHANGED <<pc, origin, lookup, results, all, failures, doneCalls, txDoneCalls>>

(* ---- Wallet.prototype.sendTx ---- *)
SendTx(s) ==
    /\ sends[s].phase = "built"
    /\ sends' = [sends EXCEPT ![s].phase = "propagating"]
    /\ UNCHANGED <<pc, origin, w, lookup, results, all, failures, doneCalls, txDoneCalls>>

(* a resolved propagate that counts the accepted transaction at once *)
PropagateOkCounting(s) ==
    /\ sends[s].phase = "propagating"
    /\ sends' = [sends EXCEPT ![s].phase = "fetching"]
    /\ w' = [w EXCEPT !.txsCount = IF sends[s].tx.signedBy = w.etherWallet
                                   THEN @ + 1 ELSE @]
    /\ UNCHANGED <<pc, origin, lookup, results, all, failures, doneCalls, txDoneCalls>>

(* propagate resolved: the then-callback calls processTx, which issues the fetch *)
PropagateOk(s) ==
    /\ sends[s].phase = "propagating"
    /\ sends' = [sends EXCEPT ![s].phase = "fetching"]
    /\ UNCHANGED <<pc, origin, w, lookup, results, all, failures, doneCalls, txDoneCalls>>

(* a rejected propagate whose error is swallowed *)
PropagateFailSilent(s, e) ==
    /\ sends[s].phase = "propagating"
    /\ sends' = [sends EXCEPT ![s].phase = "done", ![s].thrown = e]
    /\ UNCHANGED <<pc, origin, w, lookup, results, all, failures, doneCalls, txDoneCalls>>

(* propagate rejected: .catch(done) *)
PropagateFail(s, e) ==
    /\ sends[s].phase = "propagating"
    /\ sends' = [sends EXCEPT ![s].phase = "done", ![s].thrown = e,
                              ![s].cb = [n |-> @.n + 1, err |-> e, tx |-> << >>]]
    /\ UNCHANGED <<pc, origin, w, lookup, results, all, failures, doneCalls, txDoneCalls>>

(* ---- Wallet.prototype.processTx: the fetch callback ---- *)
(* the transaction the indexer returns for the broadcast tx *)
FetchedTx(tx, reply) ==
    RawTx(getAddressString(tx.signedBy), tx.to, tx.value, tx.gasLimit, tx.gasPrice,
          reply.gasUsed, reply.confirmations)

(* a balance update computed from the balance the constructor loaded *)
processTxBalanceStale(balance, historyTx) ==
    results.balance + Big(historyTx.value) - historyTx.gas * historyTx.gasPrice

(* the balance update with the fee left out *)
processTxBalanceNoFee(balance, historyTx) == balance + Big(historyTx.value)

processTxBalance(balance, historyTx) ==
    balance + Big(historyTx.value) - historyTx.gas * historyTx.gasPrice

processTxCount(txsCount, historyTx, address) ==
    IF historyTx.from = address THEN txsCount + 1 ELSE txsCount

(* a history that grows at its end *)
processTxHistoryPush(historyTxs, historyTx) == Append(historyTxs, historyTx)

processTxHistory(historyTxs, historyTx) == <<historyTx>> \o historyTxs

GetOk(s, reply) ==
    /\ sends[s].phase = "fetching"
    /\ LET raw == FetchedTx(sends[s].tx, reply)
           historyTx == transformTxs(w.addressString, <<raw>>)[1]
       IN  IF BigValid(historyTx.value)
           THEN /\ w' = [w EXCEPT
                          !.balance = processTxBalance(w.balance, historyTx),
                          !.txsCount = processTxCount(w.txsCount, historyTx,
                                                      w.addressString),
                          !.historyTxs = processTxHistory(w.historyTxs, historyTx)]
                /\ sends' = [sends EXCEPT
                      ![s].phase = "done", ![s].raw = raw,
                      ![s].cb = [n |-> @.n + 1, err |-> NoError, tx |-> <<historyTx>>]]
           ELSE /\ w' = w
                /\ sends' = [sends EXCEPT
                      ![s].phase = "done", ![s].raw = raw,
                      ![s].cb = [n |-> @.n + 1, err |-> "Invalid number", tx |-> << >>]]
    /\ UNCHANGED <<pc, origin, lookup, results, all, failures, doneCalls, txDoneCalls>>

(* the fetch rejected: .catch(done) *)
GetFail(s, e) ==
    /\ sends[s].phase = "fetching"
    /\ sends' = [sends EXCEPT ![s].phase = "done", ![s].thrown = e,
                              ![s].cb = [n |-> @.n + 1, err |-> e, tx |-> << >>]]
    /\ UNCHANGED <<pc, origin, w, lookup, results, all, failures, doneCalls, txDoneCalls>>

(* ---- Wallet.prototype.getImportTxOptions ---- *)
(* a call that issues the balance lookup alone *)
GetImportTxOptionsBalanceFirst(s, privateKey) ==
    /\ pc = "ready"
    /\ NextFree(s)
    /\ sends' = [sends EXCEPT ![s].phase = "importing", ![s].bal = "pending",
                              ![s].options = [NoOptions EXCEPT !.privateKey = privateKey]]
    /\ UNCHANGED <<pc, origin, w, lookup, results, all, failures, doneCalls, txDoneCalls>>

(* both lookups are handed to Promise.all when the call is made *)
GetImportTxOptions(s, privateKey) ==
    /\ pc = "ready"
    /\ NextFree(s)
    /\ sends' = [sends EXCEPT ![s].phase = "importing", ![s].bal = "pending",
                              ![s].cnt = "pending",
                              ![s].options = [NoOptions EXCEPT !.privateKey = privateKey]]
    /\ UNCHANGED <<pc, origin, w, lookup, results, all, failures, doneCalls, txDoneCalls>>

(* Promise.all of the two lookups: resolved by the second fulfilment *)
ImportPhaseAfterFulfil(phase, other) ==
    IF phase = "importing" /\ other = "ok" THEN "options" ELSE phase

ImportBalanceFulfil(s, r) ==
    /\ sends[s].phase = "importing"
    /\ sends[s].bal = "pending"
    /\ sends' = [sends EXCEPT
          ![s].bal = "ok",
          ![s].options.amount = IF sends[s].phase = "importing" THEN r ELSE @,
          ![s].phase = ImportPhaseAfterFulfil(@, sends[s].cnt)]
    /\ UNCHANGED <<pc, origin, w, lookup, results, all, failures, doneCalls, txDoneCalls>>

ImportTxsCountFulfil(s, r) ==
    /\ sends[s].phase = "importing"
    /\ sends[s].cnt = "pending"
    /\ sends' = [sends EXCEPT
          ![s].cnt = "ok",
          ![s].options.txsCount = IF sends[s].phase = "importing" THEN r ELSE @,
          ![s].phase = ImportPhaseAfterFulfil(@, sends[s].bal)]
    /\ UNCHANGED <<pc, origin, w, lookup, results, all, failures, doneCalls, txDoneCalls>>

ImportBalanceReject(s) ==
    /\ sends[s].phase = "importing"
    /\ sends[s].bal = "pending"
    /\ sends' = [sends EXCEPT
          ![s].bal = "err",
          ![s].thrown = IF sends[s].phase = "importing" THEN LookupError(1) ELSE @,
          ![s].phase = IF @ = "importing" THEN "rejected" ELSE @]
    /\ UNCHANGED <<pc, origin, w, lookup, results, all, failures, doneCalls, txDoneCalls>>

ImportTxsCountReject(s) ==
    /\ sends[s].phase = "importing"
    /\ sends[s].cnt = "pending"
    /\ sends' = [sends EXCEPT
          ![s].cnt = "err",
          ![s].thrown = IF sends[s].phase = "importing" THEN LookupError(2) ELSE @,
          ![s].phase = IF @ = "importing" THEN "rejected" ELSE @]
    /\ UNCHANGED <<pc, origin, w, lookup, results, all, failures, doneCalls, txDoneCalls>>

(* ---- Wallet.prototype.createImportTx ---- *)
(* an insufficient-funds test that also rejects amount = fee *)
createImportTxErrorLte(options) ==
    IF options.amount = NoNum \/ options.fee = NoNum THEN "Invalid number"
    ELSE IF options.amount - options.fee <= 0 THEN "Insufficient funds"
    ELSE NoError

createImportTxError(options) ==
    IF options.amount = NoNum \/ options.fee = NoNum THEN "Invalid number"
    ELSE IF options.amount - options.fee < 0 THEN "Insufficient funds"
    ELSE NoError

(* an import transfer numbered with this wallet's own nonce *)
createImportTxOwnNonce(wallet, options) ==
    [nonce |-> wallet.txsCount, gasPrice |-> wallet.gasPrice,
     gasLimit |-> wallet.gasLimit, to |-> options.to,
     value |-> options.amount - options.fee, chainId |-> ChainId,
     signedBy |-> options.privateKey]

createImportTxFields(wallet, options) ==
    [nonce |-> options.txsCount, gasPrice |-> wallet.gasPrice,
     gasLimit |-> wallet.gasLimit, to |-> options.to,
     value |-> options.amount - options.fee, chainId |-> ChainId,
     signedBy |-> options.privateKey]

(* the caller completes the prepared options with a fee and a recipient *)
CreateImportTx(s, fee, to) ==
    /\ pc = "ready"
    /\ sends[s].phase = "options"
    /\ LET options == [sends[s].options EXCEPT !.fee = fee, !.to = to]
           err == createImportTxError(options)
       IN  IF err # NoError
           THEN sends' = [sends EXCEPT ![s].phase = "threw", ![s].thrown = err,
                                       ![s].options = options]
           ELSE sends' = [sends EXCEPT ![s].phase = "built", ![s].options = options,
                                       ![s].tx = createImportTxFields(w, options)]
    /\ UNCHANGED <<pc, origin, w, lookup, results, all, failures, doneCalls, txDoneCalls>>

(* ---- Wallet.prototype.serialize / Wallet.deserialize ---- *)
(* JSON.stringify leaves out a key whose value is undefined; JSON.parse gives *)
(* back the keys that were written                                            *)
serialize(wallet) ==
    LET record ==
          [balance |-> wallet.balance,
           confirmedBalance |-> wallet.confirmedBalance,
           historyTxs |-> wallet.historyTxs,
           txsCount |-> wallet.txsCount,
           privateKey |-> getPrivateKeyString(wallet.etherWallet),
           addressString |-> getAddressString(wallet.etherWallet),
           gasPrice |-> wallet.gasPrice,
           gasLimit |-> wallet.gasLimit,
           minConf |-> wallet.minConf]
    IN  IF wallet.networkName = Undefined THEN record
        ELSE ("networkName" :> wallet.networkName) @@ record

(* new Buffer(str, 'hex'): a string that still starts with "0x" is no hex string *)
HexDecode(str) == IF str.pfx THEN 0 ELSE str.hex

(* a createPrivateKey that does not strip the "0x" prefix *)
createPrivateKeyNoStrip(str) ==
    LET privateKey == HexDecode(str)
    IN  IF isValidPrivate(privateKey) THEN privateKey ELSE 0

(* Wallet.prototype.createPrivateKey: 0 stands for the thrown 'Invalid private key' *)
createPrivateKey(str) ==
    LET stripped == IF str.pfx THEN [pfx |-> FALSE, hex |-> str.hex] ELSE str
        privateKey == HexDecode(stripped)
    IN  IF isValidPrivate(privateKey) THEN privateKey ELSE 0

deserialize(json) ==
    [networkName |-> IF "networkName" \in DOMAIN json THEN json.networkName
                     ELSE Undefined,
     balance |-> json.balance,
     confirmedBalance |-> json.confirmedBalance,
     historyTxs |-> json.historyTxs,
     txsCount |-> json.txsCount,
     etherWallet |-> createPrivateKey(json.privateKey),
     addressString |-> json.addressString,
     gasPrice |-> json.gasPrice,
     gasLimit |-> json.gasLimit,
     minConf |-> json.minConf]

(* no request of this wallet object is outstanding *)
Quiescent ==
    /\ pc \in {"ready", "failed"}
    /\ \A s \in Slots : sends[s].phase \notin {"importing", "propagating", "fetching"}

(* serialize() and getPendingSpends() assign nothing; what they return is the *)
(* operator of the same name                                                  *)
Serialize ==
    /\ pc = "ready"
    /\ UNCHANGED vars

GetPendingSpends ==
    /\ pc = "ready"
    /\ UNCHANGED vars

(* ---- Wallet.prototype.getBalance / exportPrivateKeys ---- *)
getBalance(wallet) == wallet.balance

exportPrivateKeys(wallet) ==
    [header |-> "address,privatekey", address |-> wallet.addressString,
     privatekey |-> [pfx |-> FALSE, hex |-> wallet.etherWallet]]

GetBalance ==
    /\ pc = "ready"
    /\ UNCHANGED vars

GetDefaultFee ==
    /\ pc = "ready"
    /\ UNCHANGED vars

ExportPrivateKeys ==
    /\ pc = "ready"
    /\ UNCHANGED vars

(* Wallet.deserialize(json): the caller goes on with the restored wallet *)
Deserialize(json) ==
    /\ Quiescent
    /\ createPrivateKey(json.privateKey) # 0
    /\ w' = deserialize(json)
    /\ pc' = "ready"
    /\ origin' = "json"
    /\ UNCHANGED <<lookup, results, all, failures, doneCalls, txDoneCalls, sends>>

(* the records a caller may hand to Wallet.deserialize instead of the one just *)
(* written: that record with its address or its private key replaced           *)
StoredRecords(json) ==
    { [json EXCEPT !.addressString = getAddressString(ForeignKey)],
      [json EXCEPT !.privateKey = [pfx |-> FALSE, hex |-> ForeignKey]],
      [json EXCEPT !.privateKey = [pfx |-> TRUE, hex |-> 0]] }

Next ==
    \/ \E options \in ConstructOptions : Construct(options)
    \/ \E i \in 1..4 : LookupFulfil(i)
    \/ \E i \in 1..4 : LookupReject(i)
    \/ ConstructThen
    \/ ConstructCatch
    \/ \E s \in Slots, to \in TransferTargets, value \in TransferValues : CreateTx(s, to, value)
    \/ \E s \in Slots : SendTx(s)
    \/ \E s \in Slots : PropagateOk(s)
    \/ \E s \in Slots, e \in PropagateErrors : PropagateFail(s, e)
    \/ \E s \in Slots, reply \in GetReplies : GetOk(s, reply)
    \/ \E s \in Slots, e \in GetErrors : GetFail(s, e)
    \/ \E s \in Slots : GetImportTxOptions(s, ForeignKey)
    \/ \E s \in Slots, r \in ImportBalanceReplies : ImportBalanceFulfil(s, r)
    \/ \E s \in Slots, r \in ImportTxsCountReplies : ImportTxsCountFulfil(s, r)
    \/ \E s \in Slots : ImportBalanceReject(s)
    \/ \E s \in Slots : ImportTxsCountReject(s)
    \/ \E s \in Slots, c \in ImportCompletions(w) : CreateImportTx(s, c.fee, c.to)
    \/ Serialize
    \/ GetPendingSpends
    \/ GetBalance
    \/ GetDefaultFee
    \/ ExportPrivateKeys

Spec == Init /\ [][Next]_vars

(* every request of a send settles, and the callback registered on its      *)
(* promise then runs                                                        *)
PropagateSettles(s) ==
    \/ PropagateOk(s)
    \/ \E e \in PropagateErrors : PropagateFail(s, e)

GetSettles(s) ==
    \/ \E reply \in GetReplies : GetOk(s, reply)
    \/ \E e \in GetErrors : GetFail(s, e)

SendsSettle ==
    \A s \in Slots : WF_vars(PropagateSettles(s)) /\ WF_vars(GetSettles(s))

SpecFair == Init /\ [][Next]_vars /\ SendsSettle

(* the wallet is persisted and restored between operations *)
Restore ==
    /\ pc = "ready"
    /\ Deserialize(serialize(w))

NextRestore == Next \/ Restore

SpecRestore == Init /\ [][NextRestore]_vars

(* as SpecRestore, and the stored record may have been altered *)
RestoreStored ==
    /\ pc = "ready"
    /\ \E json \in StoredRecords(serialize(w)) : Deserialize(json)

NextStored == NextRestore \/ RestoreStored

SpecStored == Init /\ [][NextStored]_vars

(***************************************************************************)
(* Claims                                                                  *)
(***************************************************************************)
SendCompleted(s) == sends[s].phase = "done"
Recorded(s) == sends[s].phase = "done" /\ sends[s].cb.err = NoError
OwnTx(s) == sends[s].tx.signedBy = w.etherWallet

(* C1: when the fetch callback of processTx records a fetched transaction   *)
(* with raw value V, gas G and gas price P: if its sender is this wallet's  *)
(* address the balance becomes balance - V - G*P and txsCount goes up by    *)
(* exactly 1; for any other sender txsCount is unchanged and the balance    *)
(* becomes balance + V - G*P.                                               *)
C1_RecordStep(s) ==
    /\ sends[s].phase = "fetching"
    /\ sends'[s].phase = "done"
    /\ sends'[s].cb.err = NoError

C1_RecordTransaction ==
    [][\A s \in Slots :
         C1_RecordStep(s) =>
           LET raw == sends'[s].raw
               V == raw.value.mag
               G == raw.gas
               P == raw.gasPrice
           IN  /\ raw.value.neg = 0
               /\ IF raw.from = w.addressString
                  THEN /\ w'.balance = w.balance - V - G * P
                       /\ w'.txsCount = w.txsCount + 1
                  ELSE /\ w'.balance = w.balance + V - G * P
                       /\ w'.txsCount = w.txsCount]_vars

(* C1 witness: one transaction sent by this wallet and one sent by another *)
(* address have both been recorded.                                        *)
C1_Witness ==
    \E s, t \in Slots :
        /\ Recorded(s) /\ sends[s].raw.from = w.addressString
        /\ sends[s].raw.value.mag > 0
        /\ Recorded(t) /\ sends[t].raw.from # w.addressString
        /\ sends[t].raw.value.mag > 0

(* C2: every step of a send other than the successful fetch callback leaves *)
(* balance, txsCount and historyTxs as they are, so a send that fails at    *)
(* the broadcast or at the fetch ends with the state it started with; and   *)
(* the completion callback is called with the error the failed request      *)
(* rejected with, and with no transaction.                                  *)
C2_SendStep(s) ==
    \/ sends[s].phase = "built" /\ sends'[s].phase = "propagating"
    \/ sends[s].phase = "propagating" /\ sends'[s].phase \in {"fetching", "done"}
    \/ sends[s].phase = "fetching" /\ sends'[s].phase = "done"
                                   /\ sends'[s].cb.err # NoError

C2_FailStep(s) ==
    /\ sends[s].phase \in {"propagating", "fetching"}
    /\ sends'[s].phase = "done"
    /\ sends'[s].cb.err # NoError

C2_FailedSendKeepsState ==
    [][\A s \in Slots :
         /\ C2_SendStep(s) =>
              /\ w'.balance = w.balance
              /\ w'.txsCount = w.txsCount
              /\ w'.historyTxs = w.historyTxs
         /\ C2_FailStep(s) =>
              /\ sends'[s].cb = [n |-> 1, err |-> sends'[s].thrown, tx |-> << >>]
              /\ sends[s].phase = "propagating" => sends'[s].cb.err \in PropagateErrors
              /\ sends[s].phase = "fetching" => sends'[s].cb.err \in GetErrors]_vars

(* C2 witness: one send failed at the broadcast, another at the fetch. *)
C2_Witness ==
    \E s, t \in Slots :
        /\ SendCompleted(s) /\ sends[s].cb.err \in PropagateErrors
        /\ SendCompleted(t) /\ sends[t].cb.err \in GetErrors

(* C3: once one of the constructor's four lookups has failed, the fields a  *)
(* lookup fills keep their initial values for good, whatever the other      *)
(* lookups deliver, and the callback is called at most once, with the error *)
(* of the first failure and without a wallet.                               *)
C3_ConstructAtomic ==
    failures # << >> =>
        /\ w.balance = 0
        /\ w.confirmedBalance = 0
        /\ w.txsCount = 0
        /\ w.gasPrice = 0
        /\ w.historyTxs = << >>
        /\ pc \in {"pending", "failed"}
        /\ doneCalls \in { << >>,
                           <<[err |-> LookupError(failures[1]), wallet |-> FALSE]>> }
        /\ pc = "failed" => Len(doneCalls) = 1

(* C3 witness: construction failed after two lookups had failed, the first *)
(* failure not being that of the first lookup, and the balance lookup had  *)
(* delivered its values.                                                   *)
C3_Witness ==
    /\ pc = "failed"
    /\ Len(failures) = 2
    /\ failures[1] > failures[2]
    /\ lookup[1] = "ok"
    /\ results.balance # 0

(* C4: whenever no send is in progress, txsCount equals the tx count read  *)
(* at construction plus the number of this wallet's own transfers whose    *)
(* broadcast the network accepted.                                         *)
BroadcastAccepted(s) ==
    \/ sends[s].phase = "fetching"
    \/ sends[s].phase = "done" /\ sends[s].cb.err \notin PropagateErrors

NoSendInProgress == \A s \in Slots : sends[s].phase \notin {"propagating", "fetching"}

C4_NonceCountsAccepted ==
    (pc = "ready" /\ NoSendInProgress) =>
        w.txsCount = results.txsCount
                     + Cardinality({s \in Slots : OwnTx(s) /\ BroadcastAccepted(s)})

(* C5: a wallet restored from what serialize() wrote has the same           *)
(* networkName, balance, confirmedBalance, historyTxs, txsCount, gasPrice,  *)
(* gasLimit, minConf, private key and address as the wallet that wrote it.  *)
C5_RoundTrip ==
    pc = "ready" =>
        LET restored == deserialize(serialize(w))
        IN  /\ restored.networkName = w.networkName
            /\ restored.balance = w.balance
            /\ restored.confirmedBalance = w.confirmedBalance
            /\ restored.historyTxs = w.historyTxs
            /\ restored.txsCount = w.txsCount
            /\ restored.gasPrice = w.gasPrice
            /\ restored.gasLimit = w.gasLimit
            /\ restored.minConf = w.minConf
            /\ restored.etherWallet = w.etherWallet
            /\ restored.addressString = w.addressString

(* C5 witness: a wallet constructed without a network name was restored    *)
(* after one of its own transfers had been recorded.                       *)
C5_Witness ==
    /\ pc = "ready"
    /\ origin = "json"
    /\ w.networkName = Undefined
    /\ w.txsCount > results.txsCount
    /\ Len(w.historyTxs) > Len(results.txs)
    /\ \E s \in Slots : Recorded(s) /\ OwnTx(s)

(* C6: the stored address of a usable wallet is the address of its key. *)
C6_AddressOfKey ==
    pc = "ready" => w.addressString = getAddressString(w.etherWallet)

(* C7: getPendingSpends is the sum of |value| + gas*gasPrice over exactly   *)
(* the history entries that have fewer than minConf confirmations and were  *)
(* sent from this wallet's address; it is 0 when there is no such entry.    *)
C7_Pending(wallet) ==
    {i \in 1..Len(wallet.historyTxs) :
        /\ wallet.historyTxs[i].confirmations < wallet.minConf
        /\ wallet.historyTxs[i].from = wallet.addressString}

RECURSIVE C7_Sum(_, _)
C7_Sum(txs, indexes) ==
    IF indexes = {} THEN 0
    ELSE LET i == CHOOSE j \in indexes : TRUE
         IN  txs[i].value.mag + txs[i].gas * txs[i].gasPrice
             + C7_Sum(txs, indexes \ {i})

C7_PendingSpends ==
    pc = "ready" =>
        /\ getPendingSpends(w) = C7_Sum(w.historyTxs, C7_Pending(w))
        /\ C7_Pending(w) = {} => getPendingSpends(w) = 0

(* C7 witness: the history holds a pending and a confirmed entry of this   *)
(* wallet, one with exactly minConf confirmations, and a pending entry of  *)
(* another sender.                                                         *)
C7_Witness ==
    /\ pc = "ready"
    /\ \E i, j, k \in 1..Len(w.historyTxs) :
          /\ w.historyTxs[i].from = w.addressString
          /\ w.historyTxs[i].confirmations < w.minConf
          /\ w.historyTxs[j].from = w.addressString
          /\ w.historyTxs[j].confirmations = w.minConf
          /\ w.historyTxs[k].from # w.addressString
          /\ w.historyTxs[k].confirmations < w.minConf
    /\ \E s \in Slots : Recorded(s) /\ OwnTx(s)
    /\ getPendingSpends(w) > 0

(* the slots on which createImportTx has been called *)
ImportCalled(s) ==
    /\ sends[s].options.privateKey # 0
    /\ sends[s].phase \in {"threw", "built", "propagating", "fetching", "done"}

ImportBuilt(s) == ImportCalled(s) /\ sends[s].phase # "threw"

ImportNumbers(s) == sends[s].options.amount # NoNum /\ sends[s].options.fee # NoNum

(* C8: createImportTx with amount - fee < 0 throws 'Insufficient funds',   *)
(* builds no transaction and leaves the wallet as it is; a transaction it  *)
(* does build has value amount - fee and the nonce given in the options.   *)
C8_ImportAmount ==
    /\ [](\A s \in Slots :
            /\ (ImportCalled(s) /\ ImportNumbers(s)
                   /\ sends[s].options.amount - sends[s].options.fee < 0) =>
                 /\ sends[s].phase = "threw"
                 /\ sends[s].thrown = "Insufficient funds"
                 /\ sends[s].tx = NoTx
            /\ ImportBuilt(s) =>
                 /\ sends[s].tx.value = sends[s].options.amount - sends[s].options.fee
                 /\ sends[s].tx.nonce = sends[s].options.txsCount)
    /\ [][\A s \in Slots :
            (sends[s].phase = "options" /\ sends'[s].phase # "options") => w' = w]_vars

(* C8 witness: one import was refused for insufficient funds, another was  *)
(* built with a positive value.                                            *)
C8_Witness ==
    \E s, t \in Slots :
        /\ ImportCalled(s) /\ sends[s].thrown = "Insufficient funds"
        /\ sends[s].options.amount < sends[s].options.fee
        /\ ImportBuilt(t) /\ sends[t].tx.value > 0
        /\ sends[t].tx.nonce # w.txsCount

(* C9: a transaction built by createImportTx is addressed to this wallet's *)
(* own address and signed with the private key of the options.             *)
C9_ImportToSelf ==
    \A s \in Slots :
        ImportBuilt(s) =>
            /\ sends[s].tx.to = w.addressString
            /\ sends[s].tx.signedBy = sends[s].options.privateKey

(* C10 as claimed: createImportTx throws 'Insufficient funds' whenever     *)
(* amount <= fee.                                                          *)
C10_RefusesAmountUpToFee ==
    \A s \in Slots :
        (ImportCalled(s) /\ ImportNumbers(s)
            /\ sends[s].options.amount <= sends[s].options.fee) =>
          (sends[s].phase = "threw" /\ sends[s].thrown = "Insufficient funds")

(* C10 as amended: createImportTx throws 'Insufficient funds' exactly when *)
(* amount < fee; with amount = fee it builds a transaction of value 0.     *)
C10_RefusesAmountBelowFee ==
    \A s \in Slots :
        (ImportCalled(s) /\ ImportNumbers(s)) =>
            /\ (sends[s].phase = "threw" /\ sends[s].thrown = "Insufficient funds")
                 <=> sends[s].options.amount < sends[s].options.fee
            /\ sends[s].options.amount = sends[s].options.fee =>
                 (ImportBuilt(s) /\ sends[s].tx.value = 0)

(* C10 witness: an import whose fee equals its amount was built, and one   *)
(* whose fee exceeds its amount was refused.                               *)
C10_Witness ==
    \E s, t \in Slots :
        /\ ImportBuilt(s) /\ sends[s].options.amount = sends[s].options.fee
        /\ sends[s].tx.value = 0
        /\ ImportCalled(t) /\ sends[t].phase = "threw"
        /\ sends[t].options.fee > sends[t].options.amount

(* C11: createTx either throws the validation gate's error and builds no    *)
(* transaction, or returns a signed transaction whose nonce is the current  *)
(* txsCount, whose gas price and gas limit are the wallet's, whose          *)
(* recipient and value are passed the gate, and whose chain id is 1; the   *)
(* wallet is unchanged in both cases, so while no fetched transaction of    *)
(* this wallet has been recorded every transfer built carries the nonce     *)
(* the wallet was constructed with.                                         *)
C11_BuildStep(s) ==
    /\ sends[s].phase = "free"
    /\ sends'[s].phase \in {"threw", "built"}

OwnRecorded(s) == Recorded(s) /\ sends[s].raw.from = w.addressString

C11_CreateTx ==
    /\ [][\A s \in Slots :
            C11_BuildStep(s) =>
              /\ w' = w
              /\ sends'[s].phase = "threw" =>
                    /\ sends'[s].tx = NoTx
                    /\ sends'[s].thrown # NoError
                    /\ \E to \in TransferTargets, value \in TransferValues :
                          sends'[s].thrown = validatorTransaction(w, to, value)
              /\ sends'[s].phase = "built" =>
                    LET tx == sends'[s].tx IN
                    /\ validatorTransaction(w, tx.to, tx.value) = NoError
                    /\ sends'[s].thrown = NoError
                    /\ tx.nonce = w.txsCount
                    /\ tx.gasPrice = w.gasPrice
                    /\ tx.gasLimit = w.gasLimit
                    /\ tx.to \in TransferTargets
                    /\ tx.value \in TransferValues
                    /\ tx.chainId = 1
                    /\ tx.signedBy = w.etherWallet]_vars
    /\ []((\A u \in Slots : ~OwnRecorded(u)) =>
            \A s, t \in Slots :
               (sends[s].tx # NoTx /\ OwnTx(s) /\ sends[t].tx # NoTx /\ OwnTx(t))
                  => sends[s].tx.nonce = sends[t].tx.nonce)

(* C11 witness: createTx was called twice: the gate refused the first       *)
(* transfer, and the second was built with the nonce the wallet was         *)
(* constructed with.                                                        *)
C11_Witness ==
    \E s, u \in Slots :
        /\ s < u
        /\ sends[s].phase = "threw" /\ sends[s].options.privateKey = 0
        /\ sends[s].thrown = "Invalid value" /\ sends[s].tx = NoTx
        /\ sends[u].phase = "built" /\ OwnTx(u)
        /\ sends[u].tx.nonce = results.txsCount
        /\ sends[u].tx.value = 1000

(* C12: in a constructed wallet every history entry has been normalized     *)
(* exactly once: the entries the constructor loaded and the entries the     *)
(* fetch callback prepended each have the magnitude of the raw value, with  *)
(* one minus sign when the sender is this wallet and none otherwise; the    *)
(* fee is gasUsed * gasPrice when gasUsed is reported and -1 (never 0) when *)
(* it is not.                                                               *)
C12_Normalized(address, raw, entry) ==
    /\ raw.value.neg = 0
    /\ entry.value.mag = raw.value.mag
    /\ entry.value.neg = (IF raw.from = address THEN 1 ELSE 0)
    /\ entry.from = raw.from
    /\ raw.gasUsed # 0 => entry.fee = raw.gasUsed * raw.gasPrice
    /\ raw.gasUsed = 0 => entry.fee = 0 - 1
    /\ entry.fee # 0

C12_HistoryNormalized ==
    pc = "ready" =>
      LET h == w.historyTxs
          k == Len(results.txs)
          n == Len(h) - k
      IN  /\ n >= 0
          /\ \A i \in 1..k : C12_Normalized(w.addressString, results.txs[i], h[n + i])
          /\ \A i \in 1..n :
                \E s \in Slots : /\ Recorded(s)
                                 /\ h[i] = sends[s].cb.tx[1]
                                 /\ C12_Normalized(w.addressString, sends[s].raw, h[i])
          /\ n = Cardinality({s \in Slots : Recorded(s)})

(* C12 witness: the history holds loaded entries sent by this wallet and by *)
(* another address, with and without gasUsed, and two recorded sends, one   *)
(* mined and one with gasUsed unknown.                                      *)
C12_Witness ==
    /\ pc = "ready"
    /\ Len(results.txs) = 3
    /\ Len(w.historyTxs) = 5
    /\ w.historyTxs[3].value = [neg |-> 1, mag |-> 30]
    /\ w.historyTxs[3].fee = 0 - 1
    /\ w.historyTxs[5].value = [neg |-> 0, mag |-> 70]
    /\ \E i, j \in 1..2 : /\ w.historyTxs[i].fee = 0 - 1
                          /\ w.historyTxs[j].fee > 0
                          /\ w.historyTxs[j].value.neg = 1

(* C13: new Wallet with an empty seed calls the completion callback with    *)
(* the "seed cannot be empty" error in the constructor call itself, and     *)
(* none of the four remote lookups is issued then or at any later time.     *)
C13_EmptySeed ==
    /\ [][\A options \in ConstructOptions :
            (options.seed = EmptySeed /\ Construct(options)) =>
              /\ doneCalls' = <<[err |-> "seed cannot be empty", wallet |-> FALSE]>>
              /\ txDoneCalls' = doneCalls'
              /\ pc' = "failed"
              /\ \A i \in 1..4 : lookup'[i] = "idle"
              /\ all'.state = "none"]_vars
    /\ []((pc = "failed" /\ failures = << >>) =>
            /\ \A i \in 1..4 : lookup[i] = "idle"
            /\ doneCalls = <<[err |-> "seed cannot be empty", wallet |-> FALSE]>>
            /\ \A s \in Slots : sends[s] = FreeSlot)

(* C13 witness: a construction that failed without any lookup having failed *)
C13_Witness ==
    /\ pc = "failed"
    /\ origin = "seed"
    /\ failures = << >>
    /\ Len(doneCalls) = 1
    /\ doneCalls[1].err = "seed cannot be empty"

(* C14: in a constructed wallet only the fetch callback of processTx        *)
(* changes balance, txsCount or historyTxs; createTx, createImportTx and    *)
(* getImportTxOptions (with the settling of its lookups), like the queries, *)
(* leave every field of the wallet as it is; and no step changes gasPrice,  *)
(* gasLimit, confirmedBalance, minConf or the address.                      *)
C14_BuildStep(s) ==
    \/ sends[s].phase = "free" /\ sends'[s].phase \in {"threw", "built", "importing"}
    \/ sends[s].phase = "importing" /\ sends'[s].phase # "importing"
    \/ sends[s].phase = "importing" /\ sends'[s] # sends[s]
    \/ sends[s].phase = "options" /\ sends'[s].phase \in {"threw", "built"}

C14_Frame ==
    [][pc = "ready" =>
         /\ (\A s \in Slots : ~C1_RecordStep(s)) =>
               /\ w'.balance = w.balance
               /\ w'.txsCount = w.txsCount
               /\ w'.historyTxs = w.historyTxs
         /\ \A s \in Slots : C14_BuildStep(s) => w' = w
         /\ sends' = sends => w' = w
         /\ w'.gasPrice = w.gasPrice
         /\ w'.gasLimit = w.gasLimit
         /\ w'.confirmedBalance = w.confirmedBalance
         /\ w'.minConf = w.minConf
         /\ w'.addressString = w.addressString
         /\ w'.etherWallet = w.etherWallet]_vars

(* C14 witness: a transfer of this wallet has been recorded, so balance and *)
(* txsCount have moved, an import transaction has been built, and the       *)
(* other fields still hold what the constructor loaded.                     *)
C14_Witness ==
    \E s, t \in Slots :
        /\ OwnRecorded(s)
        /\ w.balance < results.balance
        /\ w.txsCount = results.txsCount + 1
        /\ sends[t].phase = "built" /\ ImportCalled(t)
        /\ w.gasPrice = results.gasPrice
        /\ w.confirmedBalance = results.confirmedBalance
        /\ w.gasLimit = DefaultGasLimit

(* C15: every send whose requests settle ends with exactly one call of its  *)
(* completion callback: with the broadcast error, and no fetch issued, when *)
(* the broadcast fails; with the fetch error when the fetch fails; with the *)
(* normalized transaction, already at the head of the history, when both    *)
(* succeed. The fetch is issued only when the broadcast has succeeded.      *)
C15_SendCompletes ==
    /\ \A s \in Slots :
          (sends[s].phase = "propagating") ~> (sends[s].phase = "done" /\ sends[s].cb.n = 1)
    /\ [](\A s \in Slots :
            /\ sends[s].cb.n = (IF sends[s].phase = "done" THEN 1 ELSE 0)
            /\ sends[s].cb.tx # << >> =>
                  /\ sends[s].cb.err = NoError
                  /\ \E i \in 1..Len(w.historyTxs) : w.historyTxs[i] = sends[s].cb.tx[1]
            /\ sends[s].cb.err \in PropagateErrors => sends[s].raw = NoRaw)
    /\ [][\A s \in Slots :
            /\ (sends'[s].phase = "fetching" /\ sends[s].phase # "fetching")
                  => sends[s].phase = "propagating"
            /\ sends[s].phase = "done" => sends'[s] = sends[s]
            /\ (sends[s].phase = "propagating" /\ sends'[s].phase # "propagating") =>
                  \/ sends'[s].phase = "fetching" /\ sends'[s].cb.n = 0
                  \/ /\ sends'[s].phase = "done"
                     /\ sends'[s].cb.err \in PropagateErrors
                     /\ sends'[s].cb.tx = << >>
            /\ (sends[s].phase = "fetching" /\ sends'[s].phase # "fetching") =>
                  /\ sends'[s].phase = "done"
                  /\ \/ sends'[s].cb.err \in GetErrors /\ sends'[s].cb.tx = << >>
                     \/ /\ sends'[s].cb.err = NoError
                        /\ sends'[s].cb.tx = <<w'.historyTxs[1]>>
                        /\ Len(w'.historyTxs) = Len(w.historyTxs) + 1
                        /\ w'.balance = w.balance + Big(sends'[s].cb.tx[1].value)
                                         - sends'[s].raw.gas * sends'[s].raw.gasPrice]_vars

(* C15 witness: one send has called back with its recorded transaction and  *)
(* another with the error of its fetch, each exactly once.                  *)
C15_Witness ==
    \E s, t \in Slots :
        /\ Recorded(s) /\ sends[s].cb.n = 1 /\ sends[s].cb.tx # << >>
        /\ sends[s].cb.tx[1] = w.historyTxs[1]
        /\ SendCompleted(t) /\ sends[t].cb.n = 1
        /\ sends[t].cb.err \in GetErrors /\ sends[t].cb.tx = << >>

(* C16 as stated: the tx-count lookup of getImportTxOptions is issued only  *)
(* after its balance lookup has completed successfully, and never when the  *)
(* balance lookup fails.                                                    *)
C16_LookupsSequential ==
    \A s \in Slots : sends[s].cnt # "idle" => sends[s].bal = "ok"

(* C16 amended: getImportTxOptions issues the balance lookup and the        *)
(* tx-count lookup together; the call is pending while neither has failed   *)
(* and one is outstanding, yields its options only when both have           *)
(* succeeded, and rejects with the error of the lookup that failed.         *)
C16_LookupsTogether ==
    \A s \in Slots :
        /\ (sends[s].bal = "idle") <=> (sends[s].cnt = "idle")
        /\ (sends[s].bal = "idle") <=> (sends[s].options.privateKey = 0)
        /\ sends[s].phase = "importing" =>
              /\ sends[s].bal \in {"pending", "ok"}
              /\ sends[s].cnt \in {"pending", "ok"}
              /\ "pending" \in {sends[s].bal, sends[s].cnt}
        /\ (sends[s].options.privateKey # 0
              /\ sends[s].phase \notin {"importing", "rejected"}) =>
              /\ sends[s].bal = "ok" /\ sends[s].cnt = "ok"
              /\ sends[s].options.amount \in ImportBalanceReplies
              /\ sends[s].options.txsCount \in ImportTxsCountReplies
        /\ sends[s].phase = "rejected" =>
              \/ sends[s].bal = "err" /\ sends[s].thrown = LookupError(1)
              \/ sends[s].cnt = "err" /\ sends[s].thrown = LookupError(2)

(* C16 witness: in one call the tx-count lookup has completed while the     *)
(* balance lookup is still outstanding; in another the balance lookup       *)
(* failed with the tx-count lookup already issued.                          *)
C16_Witness ==
    \E s, t \in Slots :
        /\ sends[s].phase = "importing"
        /\ sends[s].bal = "pending" /\ sends[s].cnt = "ok"
        /\ sends[t].phase = "rejected"
        /\ sends[t].bal = "err" /\ sends[t].cnt = "pending"

(* C17: sends are not serialized: two transfers built by createTx with no   *)
(* fetch callback recording a transaction of this wallet in between carry   *)
(* the same nonce, whatever has been broadcast meanwhile; two transfers     *)
(* carry different nonces only when such a record ran between the two       *)
(* builds, that is when an earlier send had completed successfully before   *)
(* the later transfer was built.                                            *)
C17_OwnBuilt(s) == sends[s].tx # NoTx /\ sends[s].options.privateKey = 0

C17_NonceRace ==
    \A s, t \in Slots :
        (s < t /\ C17_OwnBuilt(s) /\ C17_OwnBuilt(t)) =>
          /\ sends[s].seen = sends[t].seen => sends[s].tx.nonce = sends[t].tx.nonce
          /\ sends[s].tx.nonce # sends[t].tx.nonce =>
                /\ sends[s].seen < sends[t].seen
                /\ \E u \in Slots : u < t /\ OwnRecorded(u)

(* C17 witness: two transfers with the same nonce have both been accepted   *)
(* by the network, the second built before the first was recorded.          *)
C17_Witness ==
    \E s, t \in Slots :
        /\ s < t /\ C17_OwnBuilt(s) /\ C17_OwnBuilt(t)
        /\ sends[s].tx.nonce = sends[t].tx.nonce
        /\ sends[s].seen = sends[t].seen
        /\ OwnRecorded(s)
        /\ sends[t].phase = "fetching"

(* C18: in a constructed wallet historyTxs changes only by the fetch        *)
(* callback of processTx putting the normalized transaction at the front:   *)
(* the length grows by one and the earlier entries follow in their order;   *)
(* a send that fails, and every other step, leaves the history as it is.    *)
C18_PrependOnly ==
    [][pc = "ready" =>
         /\ \A s \in Slots :
               C1_RecordStep(s) =>
                 /\ Len(w'.historyTxs) = Len(w.historyTxs) + 1
                 /\ Head(w'.historyTxs) = sends'[s].cb.tx[1]
                 /\ Tail(w'.historyTxs) = w.historyTxs
         /\ \A s \in Slots : C2_FailStep(s) => w'.historyTxs = w.historyTxs
         /\ (\A s \in Slots : ~C1_RecordStep(s)) => w'.historyTxs = w.historyTxs]_vars

(* C18 witness: two sends, the first pending and the second mined, were     *)
(* recorded one after the other in front of the three loaded entries.       *)
C18_Witness ==
    /\ pc = "ready"
    /\ Len(results.txs) = 3
    /\ Len(w.historyTxs) = 5
    /\ SubSeq(w.historyTxs, 3, 5) = transformTxs(w.addressString, results.txs)
    /\ Recorded(1) /\ Recorded(2)
    /\ w.historyTxs[2] = sends[1].cb.tx[1]
    /\ w.historyTxs[1] = sends[2].cb.tx[1]
    /\ w.historyTxs[1].gasUsed # 0 /\ w.historyTxs[2].gasUsed = 0

(* C19: no update of a fetch callback is lost: whatever the order in which  *)
(* broadcasts and fetches completed, the balance is the loaded balance plus *)
(* the signed value minus gas * gasPrice of every recorded transaction,     *)
(* txsCount is the loaded count plus the number of recorded transactions    *)
(* sent by this wallet, and the history holds the entry of every recorded   *)
(* transaction in front of the loaded entries; only the order of these      *)
(* entries depends on the order of the fetch completions.                   *)
RECURSIVE C19_Delta(_)
C19_Delta(S) ==
    IF S = {} THEN 0
    ELSE LET s == CHOOSE x \in S : TRUE
             h == sends[s].cb.tx[1]
         IN  Big(h.value) - h.gas * h.gasPrice + C19_Delta(S \ {s})

C19_NoLostUpdate ==
    pc = "ready" =>
      LET R == {s \in Slots : Recorded(s)}
          n == Cardinality(R)
      IN  /\ w.balance = results.balance + C19_Delta(R)
          /\ w.txsCount = results.txsCount + Cardinality({s \in R : OwnRecorded(s)})
          /\ Len(w.historyTxs) = Len(results.txs) + n
          /\ \A s \in R : \E i \in 1..n : w.historyTxs[i] = sends[s].cb.tx[1]
          /\ \A i \in 1..n : \E s \in R : w.historyTxs[i] = sends[s].cb.tx[1]

(* C19 witness: two transfers built with the same nonce were in flight      *)
(* together and both were recorded, the first one sent last, so its entry   *)
(* is at the head of the history.                                           *)
C19_Witness ==
    /\ OwnRecorded(1) /\ OwnRecorded(2)
    /\ sends[1].seen = 0 /\ sends[2].seen = 0
    /\ sends[1].cb.tx[1] # sends[2].cb.tx[1]
    /\ w.historyTxs[1] = sends[1].cb.tx[1]
    /\ w.historyTxs[2] = sends[2].cb.tx[1]
    /\ w.txsCount = results.txsCount + 2

(* C20: when the fetch callback of processTx records a transaction sent by  *)
(* this wallet with fewer than minConf confirmations, the balance goes down *)
(* by |value| + gas * gasPrice and getPendingSpends goes up by the same     *)
(* amount, so their sum is unchanged; when the recorded transaction has     *)
(* another sender or at least minConf confirmations getPendingSpends is     *)
(* unchanged.                                                               *)
C20_PendingConsistent ==
    [][\A s \in Slots :
         C1_RecordStep(s) =>
           LET h == sends'[s].cb.tx[1]
               amount == h.value.mag + h.gas * h.gasPrice
           IN  IF h.from = w.addressString /\ h.confirmations < w.minConf
               THEN /\ w.balance - w'.balance = amount
                    /\ getPendingSpends(w') - getPendingSpends(w) = amount
                    /\ w'.balance + getPendingSpends(w') = w.balance + getPendingSpends(w)
               ELSE getPendingSpends(w') = getPendingSpends(w)]_vars

(* C20 witness: with minConf 2, a recorded transfer of this wallet with no  *)
(* confirmation counts as pending and one with two confirmations does not.  *)
C20_Witness ==
    \E s, t \in Slots :
        /\ w.minConf = 2
        /\ OwnRecorded(s) /\ sends[s].raw.confirmations = 0
        /\ OwnRecorded(t) /\ sends[t].raw.confirmations = 2
        /\ getPendingSpends(w) = 1000 + sends[s].raw.gas * sends[s].raw.gasPrice

====
